---- MODULE Spec2Model ----
(***************************************************************************)
(* A model of courier_cards' data_processing.py: the CSV row counter       *)
(* (_normalize_columns, _pick_column, _count_in_df, analyze_csvs) and the  *)
(* last-mile extraction (_norm_text, _find_metric_col_loose,               *)
(* _find_code_col_loose, _extract_pm_from_df, analyze_pm_excels).          *)
(*                                                                         *)
(* Text.  A Python str is a sequence of characters, each character a       *)
(* one-token string.  Cyrillic letters are written by transliteration,     *)
(* lower case for the small letter and upper case for the capital:         *)
(*   a b v g d e yo zh z i j k l m n o p r s t u ch y ya                   *)
(* Latin letters are written in brackets, "[m]" and "[M]"; digits, the     *)
(* space " ", "_", "." and "," stand for themselves.                       *)
(***************************************************************************)
EXTENDS Integers, Sequences, FiniteSets, TLC

VARIABLES
    mode,       \* which batch function runs: "csv" (analyze_csvs) or "pm" (analyze_pm_excels)
    paths,      \* the argument `paths`
    i,          \* number of elements of `paths` the for loop has consumed
    pc,         \* "loop": at the head of `for p in paths`; "sheets": inside
                \* `for sheet_name, df in xls.items()`; "done": returned
    totals,     \* analyze_csvs: totals
    per_file,   \* analyze_csvs: per_file
    results,    \* analyze_pm_excels: results
    errors,     \* errors (both functions)
    skipped,    \* analyze_pm_excels: skipped
    j,          \* number of sheets of the current workbook the inner loop has consumed
    best_sheet, \* analyze_pm_excels: best_sheet (NoSheet models None)
    best_vals,  \* analyze_pm_excels: best_vals, as [none |-> BOOLEAN, vals |-> ...]
    best_score, \* analyze_pm_excels: best_score
    arg,        \* the argument of a helper called on its own
    ret         \* what that call gave

vars == <<mode, paths, i, pc, totals, per_file, results, errors, skipped,
          j, best_sheet, best_vals, best_score, arg, ret>>

----------------------------------------------------------------------------
(* Characters and the str methods the code calls *)

\* <<small, capital>> pairs of the cased characters
Cases ==
    { <<"a","A">>, <<"b","B">>, <<"v","V">>, <<"g","G">>, <<"d","D">>, <<"e","E">>,
      <<"yo","YO">>, <<"zh","ZH">>, <<"z","Z">>, <<"i","I">>, <<"j","J">>, <<"k","K">>,
      <<"l","L">>, <<"m","M">>, <<"n","N">>, <<"o","O">>, <<"p","P">>, <<"r","R">>,
      <<"s","S">>, <<"t","T">>, <<"u","U">>, <<"ch","CH">>, <<"y","Y">>, <<"ya","YA">>,
      <<"[c]","[C]">>, <<"[k]","[K]">>, <<"[l]","[L]">>, <<"[m]","[M]">>,
      <<"[n]","[N]">>, <<"[a]","[A]">>, <<"[s]","[S]">>, <<"[t]","[T]">>,
      <<"[v]","[V]">>, <<"[x]","[X]">> }

Digits == {"0", "1", "2", "3", "4", "5", "6", "7", "8", "9"}

\* str.strip() removes these
Whitespace == {" "}

\* string.punctuation, as far as the alphabet has it
Punctuation == {".", ",", "_", "-"}

\* the characters \w matches: letters, digits and the underscore
IsWordChar(c) ==
    \/ c \in Digits
    \/ c = "_"
    \/ \E p \in Cases : c = p[1] \/ c = p[2]

LowerChar(c) == IF \E p \in Cases : p[2] = c THEN (CHOOSE p \in Cases : p[2] = c)[1] ELSE c

UpperChar(c) == IF \E p \in Cases : p[1] = c THEN (CHOOSE p \in Cases : p[1] = c)[2] ELSE c

\* str.lower()
Lower(s) == [k \in 1..Len(s) |-> LowerChar(s[k])]

\* str.upper()
Upper(s) == [k \in 1..Len(s) |-> UpperChar(s[k])]

\* str.replace("yo", "e"): only the small letter is replaced
ReplaceYo(s) == [k \in 1..Len(s) |-> IF s[k] = "yo" THEN "e" ELSE s[k]]

\* str.strip()
Strip(s) ==
    LET keep == {k \in 1..Len(s) : s[k] \notin Whitespace}
    IN  IF keep = {} THEN <<>>
        ELSE LET lo == CHOOSE k \in keep : \A m \in keep : k <= m
                 hi == CHOOSE k \in keep : \A m \in keep : k >= m
             IN  SubSeq(s, lo, hi)

\* Python's `sub in s` for two strings
Contains(sub, s) ==
    \E k \in 0..(Len(s) - Len(sub)) : SubSeq(s, k + 1, k + Len(sub)) = sub

\* s.translate(str.maketrans("", "", string.punctuation + " "))
RECURSIVE DeleteChars(_, _)
DeleteChars(s, drop) ==
    IF s = <<>> THEN <<>>
    ELSE IF Head(s) \in drop THEN DeleteChars(Tail(s), drop)
    ELSE <<Head(s)>> \o DeleteChars(Tail(s), drop)

\* the first of a set of indices, 0 if there is none
First(S) == IF S = {} THEN 0 ELSE CHOOSE k \in S : \A m \in S : k <= m

----------------------------------------------------------------------------
(* Tables.  A DataFrame is [columns |-> sequence of headers,               *)
(* rows |-> sequence of rows], a row a sequence of cells as long as        *)
(* columns; a cell is a str or NaN, the empty field.                       *)

NaN == <<"NaN">>

\* astype(str) on a cell
AsStr(cell) == IF cell = NaN THEN <<"[n]", "[a]", "[n]">> ELSE cell

\* df[col]: the values of the column labelled col
Column(df, col) ==
    LET c == First({k \in 1..Len(df.columns) : df.columns[k] = col})
    IN  [k \in 1..Len(df.rows) |-> df.rows[k][c]]

\* df[col] is a Series only when the label is unique; with a repeated label it is
\* a DataFrame, which has no .str accessor (AttributeError)
IsSeries(df, col) == Cardinality({k \in 1..Len(df.columns) : df.columns[k] = col}) = 1

\* what a call gives: a value returned or an exception raised
Return(v) == [ok |-> TRUE, val |-> v]

Raise(e) == [ok |-> FALSE, err |-> e]

----------------------------------------------------------------------------
(* CSV counting *)

\* "statuszadaniya" etc.: the candidate labels of _count_in_df, lines 50-51
STATUS_CANDIDATES ==
    << <<"s","t","a","t","u","s"," ","z","a","d","a","n","i","ya">>,
       <<"s","t","a","t","u","s">>,
       <<"s","t","a","t","u","s","_","z","a","d","a","n","i","ya">> >>

TYPE_CANDIDATES ==
    << <<"t","i","p"," ","a","d","r","e","s","a">>,
       <<"t","i","p","_","a","d","r","e","s","a">>,
       <<"t","i","p"," ","t","o","ch","k","i">>,
       <<"t","i","p","_","t","o","ch","k","i">>,
       <<"t","i","p">> >>

\* the status token of line 56
DONE_TOKEN == <<"v","y","p","o","l","n","e","n","o">>

\* the type code of line 60
POSTOMAT_CODE == <<"P">>

\* line 27: str(c).strip().lower().replace("yo", "e")
NormHeader(c) == ReplaceYo(Lower(Strip(c)))

_normalize_columns(df) ==
    [columns |-> [k \in 1..Len(df.columns) |-> NormHeader(df.columns[k])],
     rows    |-> df.rows]

\* _pick_column with one loop: each candidate is tried exactly and then as a
\* substring before the next candidate is looked at
_pick_column_SinglePass(columns, candidates) ==
    LET Matches(c) == {k \in 1..Len(columns) : Contains(candidates[c], columns[k])}
        hit == First({c \in 1..Len(candidates) : Matches(c) # {}})
    IN  IF hit = 0
        THEN Raise([type |-> "KeyError", candidates |-> candidates, columns |-> columns])
        ELSE IF \E k \in 1..Len(columns) : columns[k] = candidates[hit]
        THEN Return(candidates[hit])
        ELSE Return(columns[First(Matches(hit))])

\* _pick_column over the column labels of df_norm
_pick_column(columns, candidates) ==
    LET exact == First({c \in 1..Len(candidates) :
                           \E k \in 1..Len(columns) : columns[k] = candidates[c]})
        sub   == First({k \in 1..Len(columns) :
                           \E c \in 1..Len(candidates) :
                               Contains(candidates[c], columns[k])})
    IN  IF exact # 0 THEN Return(candidates[exact])
        ELSE IF sub # 0 THEN Return(columns[sub])
        ELSE Raise([type |-> "KeyError", candidates |-> candidates, columns |-> columns])

\* sum() of a boolean Series
CountTrue(mask) == Cardinality({k \in 1..Len(mask) : mask[k]})

\* lines 53-55 without the replace of yo
StatusSeries_NoFold(df_norm, status_col) ==
    LET raw == Column(df_norm, status_col)
    IN  [k \in 1..Len(raw) |-> Lower(Strip(AsStr(raw[k])))]

\* lines 53-55: the status column as str, stripped, lower case, yo folded
StatusSeries(df_norm, status_col) ==
    LET raw == Column(df_norm, status_col)
    IN  [k \in 1..Len(raw) |-> ReplaceYo(Lower(Strip(AsStr(raw[k]))))]

\* line 59 without upper()
TypeSeries_NoUpper(df_norm, type_col) ==
    LET raw == Column(df_norm, type_col)
    IN  [k \in 1..Len(raw) |-> Strip(AsStr(raw[k]))]

\* line 59: the type column as str, stripped, upper case
TypeSeries(df_norm, type_col) ==
    LET raw == Column(df_norm, type_col)
    IN  [k \in 1..Len(raw) |-> Upper(Strip(AsStr(raw[k])))]

\* line 60 without done_mask
Postomats_IgnoringDone(done_mask, type_series) ==
    CountTrue([k \in 1..Len(done_mask) |-> type_series[k] = POSTOMAT_CODE])

\* line 60: int((done_mask & type_series.eq("P")).sum())
Postomats(done_mask, type_series) ==
    CountTrue([k \in 1..Len(done_mask) |-> done_mask[k] /\ type_series[k] = POSTOMAT_CODE])

_count_in_df(df) ==
    LET df_norm    == _normalize_columns(df)
        status_col == _pick_column(df_norm.columns, STATUS_CANDIDATES)
        type_col   == _pick_column(df_norm.columns, TYPE_CANDIDATES)
    IN  IF ~status_col.ok THEN status_col
        ELSE IF ~type_col.ok THEN type_col
        ELSE IF ~IsSeries(df_norm, status_col.val) \/ ~IsSeries(df_norm, type_col.val)
        THEN Raise([type |-> "AttributeError"])
        ELSE
        LET status_series   == StatusSeries(df_norm, status_col.val)
            done_mask       == [k \in 1..Len(status_series) |->
                                   status_series[k] = DONE_TOKEN]
            total_completed == CountTrue(done_mask)
            type_series     == TypeSeries(df_norm, type_col.val)
            postomats       == Postomats(done_mask, type_series)
            others          == total_completed - postomats
        IN  Return([total_completed |-> total_completed,
                    postomats       |-> postomats,
                    others          |-> others])

----------------------------------------------------------------------------
(* Last mile ("PM") extraction *)

\* Python's None
None == <<"None">>

\* PM_CODES, lines 184-189, in dict order: site name and site code
PM_CODES ==
    << [name |-> "Dekabrskaya",  code |-> <<"[M]","[S]","[K]","6","5","0">>],
       [name |-> "Zhivova",      code |-> <<"[M]","[S]","[K]","9","6","3">>],
       [name |-> "Mnevniki",     code |-> <<"[M]","[S]","[K]","1","1","2","5">>],
       [name |-> "Tvardovskogo", code |-> <<"[M]","[S]","[K]","2","4","6","9">>] >>

\* PM_CODES.keys()
PM_NAMES == {PM_CODES[k].name : k \in 1..Len(PM_CODES)}

\* list(PM_CODES.values())
PM_CODE_LIST == [k \in 1..Len(PM_CODES) |-> PM_CODES[k].code]

\* PM_METRIC_RAW, line 191
PM_METRIC_RAW ==
    <<"S","r","."," ","s","r","o","k"," ","n","a"," ",
      "p","o","s","l","e","d","n","e","j"," ","m","i","l","e"," ",
      "d","l","ya"," ","2"," ","ya","k","o","r","ya"," ",
      "b","e","z"," ","S","D","D",","," ","d","n">>

\* keywords, line 216
KEYWORDS ==
    << <<"p","o","s","l","e","d","n","e","j">>,
       <<"m","i","l">>,
       <<"ya","k","o","r">>,
       <<"s","d","d">>,
       <<"s","r","o","k">> >>

\* the threshold of line 219
KEYWORD_THRESHOLD == 3

_norm_text(s) ==
    IF s = None THEN <<>>
    ELSE DeleteChars(ReplaceYo(Lower(Strip(s))), Punctuation \cup {" "})

\* sum(kw in nc for kw in keywords)
KeywordHits(nc) == Cardinality({k \in 1..Len(KEYWORDS) : Contains(KEYWORDS[k], nc)})

\* line 205
target == _norm_text(PM_METRIC_RAW)

\* _find_metric_col_loose with one loop: the first column that matches in any of
\* the three ways
_find_metric_col_loose_FirstAnyMatch(df) ==
    LET nc  == [k \in 1..Len(df.columns) |-> _norm_text(df.columns[k])]
        any == First({k \in 1..Len(nc) :
                         \/ nc[k] = target
                         \/ Contains(target, nc[k]) \/ Contains(nc[k], target)
                         \/ KeywordHits(nc[k]) >= KEYWORD_THRESHOLD})
    IN  IF any # 0 THEN Return(df.columns[any])
        ELSE Raise([type |-> "KeyError", columns |-> df.columns])

_find_metric_col_loose(df) ==
    LET nc     == [k \in 1..Len(df.columns) |-> _norm_text(df.columns[k])]
        exact  == First({k \in 1..Len(nc) : nc[k] = target})
        sub    == First({k \in 1..Len(nc) :
                            Contains(target, nc[k]) \/ Contains(nc[k], target)})
        kw     == First({k \in 1..Len(nc) : KeywordHits(nc[k]) >= KEYWORD_THRESHOLD})
    IN  IF exact # 0 THEN Return(df.columns[exact])
        ELSE IF sub # 0 THEN Return(df.columns[sub])
        ELSE IF kw # 0 THEN Return(df.columns[kw])
        ELSE Raise([type |-> "KeyError", columns |-> df.columns])

\* re.search(r"\bMSK\d+\b", s): "MSK" at a word boundary, then a run of digits
\* that ends at a word boundary
MatchesMskPattern(s) ==
    \E k \in 1..(Len(s) - 3) :
        /\ SubSeq(s, k, k + 2) = <<"[M]","[S]","[K]">>
        /\ (k = 1 \/ ~IsWordChar(s[k - 1]))
        /\ s[k + 3] \in Digits
        /\ \E e \in (k + 3)..Len(s) :
               /\ \A m \in (k + 3)..e : s[m] \in Digits
               /\ (e = Len(s) \/ ~IsWordChar(s[e + 1]))

\* sum(ser.eq(code).any() for code in upcodes) for one column
CodeHits(df, col, upcodes) ==
    LET raw == Column(df, col)
        ser == [k \in 1..Len(raw) |-> Upper(Strip(AsStr(raw[k])))]
    IN  Cardinality({c \in 1..Len(upcodes) : \E k \in 1..Len(ser) : ser[k] = upcodes[c]})

\* the first loop with `>=` for `>` on line 234
RECURSIVE BestCodeCol_LastWins(_, _, _, _, _)
BestCodeCol_LastWins(df, upcodes, k, best_col, best_hits) ==
    IF k > Len(df.columns) THEN [best_col |-> best_col, best_hits |-> best_hits]
    ELSE LET col  == df.columns[k]
             hits == CodeHits(df, col, upcodes)
         IN  IF hits >= best_hits
             THEN BestCodeCol_LastWins(df, upcodes, k + 1, col, hits)
             ELSE BestCodeCol_LastWins(df, upcodes, k + 1, best_col, best_hits)

\* the first loop of _find_code_col_loose, lines 231-236, from column k on
RECURSIVE BestCodeCol(_, _, _, _, _)
BestCodeCol(df, upcodes, k, best_col, best_hits) ==
    IF k > Len(df.columns) THEN [best_col |-> best_col, best_hits |-> best_hits]
    ELSE LET col  == df.columns[k]
             hits == CodeHits(df, col, upcodes)
         IN  IF hits > best_hits
             THEN BestCodeCol(df, upcodes, k + 1, col, hits)
             ELSE BestCodeCol(df, upcodes, k + 1, best_col, best_hits)

_find_code_col_loose(df, codes) ==
    LET upcodes == [c \in 1..Len(codes) |-> Upper(Strip(codes[c]))]
        best    == BestCodeCol(df, upcodes, 1, None, -1)
    IN  IF best.best_col = None \/ best.best_hits <= 0
        THEN LET fb == First({c \in 1..Len(df.columns) :
                                 \E k \in 1..Len(df.rows) :
                                     MatchesMskPattern(AsStr(df.rows[k][c]))})
             IN  IF fb # 0 THEN Return(df.columns[fb])
                 ELSE Raise([type |-> "KeyError", columns |-> <<>>])
        ELSE Return(best.best_col)

_extract_pm_from_df(df) ==
    LET metric_col == _find_metric_col_loose(df)
        code_col   == _find_code_col_loose(df, PM_CODE_LIST)
    IN  IF ~metric_col.ok THEN metric_col
        ELSE IF ~code_col.ok THEN code_col
        ELSE
        LET raw      == Column(df, code_col.val)
            ser_code == [k \in 1..Len(raw) |-> Upper(Strip(AsStr(raw[k])))]
            metric   == Column(df, metric_col.val)
            ValueOf(code) ==
                LET row == First({k \in 1..Len(ser_code) : ser_code[k] = code})
                IN  IF row # 0 THEN metric[row] ELSE None
        IN  Return([n \in PM_NAMES |->
                       ValueOf(PM_CODES[CHOOSE k \in 1..Len(PM_CODES) :
                                              PM_CODES[k].name = n].code)])

\* sum(v is not None for v in vals.values())
Score(vals) == Cardinality({n \in DOMAIN vals : vals[n] # None})

----------------------------------------------------------------------------
(* The two batch functions.  A path is                                     *)
(*   [name, suffix, readable, df, sheets]:                                 *)
(* p.suffix, whether pandas can read the file at all, the DataFrame        *)
(* _smart_read_csv gives for it, and the sheets pd.read_excel(p,           *)
(* sheet_name=None) gives for it, in workbook order, as [name, df].        *)

CSV_SUFFIX == <<".","[c]","[s]","[v]">>

EXCEL_SUFFIXES ==
    { <<".","[x]","[l]","[s]","[x]">>, <<".","[x]","[l]","[s]">>,
      <<".","[x]","[l]","[s]","[m]">> }

\* _smart_read_csv: the DataFrame of the first encoding and separator that parse;
\* when none does, the last pd.read_csv raises
_smart_read_csv(p) ==
    IF p.readable THEN Return(p.df) ELSE Raise([type |-> "ParserError"])

\* lines 291-297: the sheets of the workbook; the import of openpyxl or
\* pd.read_excel(p, sheet_name=None) raises for a file that cannot be read
read_excel(p) ==
    IF p.readable THEN Return(p.sheets) ELSE Raise([type |-> "ValueError"])

\* the path the for loop is at
p == paths[i + 1]

\* analyze_csvs, lines 80-81: not a CSV, continue
CsvSkip ==
    /\ mode = "csv" /\ pc = "loop" /\ i < Len(paths)
    /\ Lower(p.suffix) # CSV_SUFFIX
    /\ i' = i + 1
    /\ UNCHANGED <<mode, paths, pc, totals, per_file, results, errors, skipped,
                   j, best_sheet, best_vals, best_score, arg, ret>>

\* CsvFile with the except clause leaving the loop
CsvFile_AbortOnError ==
    /\ mode = "csv" /\ pc = "loop" /\ i < Len(paths)
    /\ Lower(p.suffix) = CSV_SUFFIX
    /\ LET df     == _smart_read_csv(p)
           counts == IF df.ok THEN _count_in_df(df.val) ELSE df
       IN  IF counts.ok
           THEN /\ per_file' = Append(per_file, [file |-> p.name] @@ counts.val)
                /\ totals' = [total_completed |->
                                  totals.total_completed + counts.val.total_completed,
                              postomats |-> totals.postomats + counts.val.postomats,
                              others    |-> totals.others + counts.val.others]
                /\ errors' = errors
                /\ i' = i + 1
           ELSE /\ errors' = Append(errors, [file |-> p.name, error |-> counts.err])
                /\ i' = Len(paths)
                /\ UNCHANGED <<per_file, totals>>
    /\ UNCHANGED <<mode, paths, pc, results, skipped,
                   j, best_sheet, best_vals, best_score, arg, ret>>

\* CsvFile with `=` for `+=` on line 88
CsvFile_OthersOverwritten ==
    /\ mode = "csv" /\ pc = "loop" /\ i < Len(paths)
    /\ Lower(p.suffix) = CSV_SUFFIX
    /\ LET df     == _smart_read_csv(p)
           counts == IF df.ok THEN _count_in_df(df.val) ELSE df
       IN  IF counts.ok
           THEN /\ per_file' = Append(per_file, [file |-> p.name] @@ counts.val)
                /\ totals' = [total_completed |->
                                  totals.total_completed + counts.val.total_completed,
                              postomats |-> totals.postomats + counts.val.postomats,
                              others    |-> counts.val.others]
                /\ errors' = errors
           ELSE /\ errors' = Append(errors, [file |-> p.name, error |-> counts.err])
                /\ UNCHANGED <<per_file, totals>>
    /\ i' = i + 1
    /\ UNCHANGED <<mode, paths, pc, results, skipped,
                   j, best_sheet, best_vals, best_score, arg, ret>>

\* analyze_csvs, lines 82-90: the try block on one CSV path
CsvFile ==
    /\ mode = "csv" /\ pc = "loop" /\ i < Len(paths)
    /\ Lower(p.suffix) = CSV_SUFFIX
    /\ LET df     == _smart_read_csv(p)
           counts == IF df.ok THEN _count_in_df(df.val) ELSE df
       IN  IF counts.ok
           THEN /\ per_file' = Append(per_file,
                                      [file            |-> p.name,
                                       total_completed |-> counts.val.total_completed,
                                       postomats       |-> counts.val.postomats,
                                       others          |-> counts.val.others])
                /\ totals' = [total_completed |->
                                  totals.total_completed + counts.val.total_completed,
                              postomats |-> totals.postomats + counts.val.postomats,
                              others    |-> totals.others + counts.val.others]
                /\ errors' = errors
           ELSE /\ errors' = Append(errors, [file |-> p.name, error |-> counts.err])
                /\ UNCHANGED <<per_file, totals>>
    /\ i' = i + 1
    /\ UNCHANGED <<mode, paths, pc, results, skipped,
                   j, best_sheet, best_vals, best_score, arg, ret>>

\* PmSkip passing over the file without a record
PmSkip_Silent ==
    /\ mode = "pm" /\ pc = "loop" /\ i < Len(paths)
    /\ Lower(p.suffix) \notin EXCEL_SUFFIXES
    /\ i' = i + 1
    /\ UNCHANGED <<mode, paths, pc, totals, per_file, results, errors, skipped,
                   j, best_sheet, best_vals, best_score, arg, ret>>

\* analyze_pm_excels, lines 286-289: not an Excel file
PmSkip ==
    /\ mode = "pm" /\ pc = "loop" /\ i < Len(paths)
    /\ Lower(p.suffix) \notin EXCEL_SUFFIXES
    /\ skipped' = Append(skipped, [file |-> p.name, reason |-> "Ne Excel"])
    /\ i' = i + 1
    /\ UNCHANGED <<mode, paths, pc, totals, per_file, results, errors,
                   j, best_sheet, best_vals, best_score, arg, ret>>

\* analyze_pm_excels, lines 290-300: read all the sheets, reset the best
PmOpen ==
    /\ mode = "pm" /\ pc = "loop" /\ i < Len(paths)
    /\ Lower(p.suffix) \in EXCEL_SUFFIXES
    /\ LET xls == read_excel(p)
       IN  IF xls.ok
           THEN /\ pc' = "sheets"
                /\ j' = 0
                /\ best_sheet' = None
                /\ best_vals' = None
                /\ best_score' = -1
                /\ UNCHANGED <<i, errors>>
           ELSE /\ errors' = Append(errors, [file |-> p.name, error |-> xls.err])
                /\ i' = i + 1
                /\ UNCHANGED <<pc, j, best_sheet, best_vals, best_score>>
    /\ UNCHANGED <<mode, paths, totals, per_file, results, skipped, arg, ret>>

\* PmSheet with `>=` for `>` on line 306
PmSheet_LastWins ==
    /\ mode = "pm" /\ pc = "sheets"
    /\ j < Len(p.sheets) /\ best_score # Len(PM_CODES)
    /\ LET sheet == p.sheets[j + 1]
           vals  == _extract_pm_from_df(sheet.df)
       IN  IF vals.ok /\ Score(vals.val) >= best_score
           THEN /\ best_sheet' = sheet.name
                /\ best_vals' = vals.val
                /\ best_score' = Score(vals.val)
           ELSE UNCHANGED <<best_sheet, best_vals, best_score>>
    /\ j' = j + 1
    /\ UNCHANGED <<mode, paths, i, pc, totals, per_file, results, errors, skipped,
                   arg, ret>>

\* analyze_pm_excels, lines 302-313: one turn of the loop over the sheets.  The
\* break of line 311 is taken exactly when best_score becomes len(PM_CODES), so
\* the loop goes on only while best_score is below it.
PmSheet ==
    /\ mode = "pm" /\ pc = "sheets"
    /\ j < Len(p.sheets) /\ best_score # Len(PM_CODES)
    /\ LET sheet == p.sheets[j + 1]
           vals  == _extract_pm_from_df(sheet.df)
       IN  IF vals.ok /\ Score(vals.val) > best_score
           THEN /\ best_sheet' = sheet.name
                /\ best_vals' = vals.val
                /\ best_score' = Score(vals.val)
           ELSE UNCHANGED <<best_sheet, best_vals, best_score>>
    /\ j' = j + 1
    /\ UNCHANGED <<mode, paths, i, pc, totals, per_file, results, errors, skipped,
                   arg, ret>>

\* analyze_pm_excels, lines 315-325: after the loop over the sheets
PmFinish ==
    /\ mode = "pm" /\ pc = "sheets"
    /\ (j = Len(p.sheets) \/ best_score = Len(PM_CODES))
    /\ IF best_vals = None
       THEN /\ errors' = Append(errors, [file  |-> p.name,
                                         error |-> [type |-> "KeyError"]])
            /\ results' = results
       ELSE /\ results' = Append(results, [file   |-> p.name,
                                           sheet  |-> best_sheet,
                                           values |-> best_vals])
            /\ errors' = errors
    /\ i' = i + 1
    /\ pc' = "loop"
    /\ UNCHANGED <<mode, paths, totals, per_file, skipped,
                   j, best_sheet, best_vals, best_score, arg, ret>>

\* lines 92 and 327: the loop is over, return
Finish ==
    /\ pc = "loop" /\ i = Len(paths)
    /\ pc' = "done"
    /\ UNCHANGED <<mode, paths, i, totals, per_file, results, errors, skipped,
                   j, best_sheet, best_vals, best_score, arg, ret>>

----------------------------------------------------------------------------
(* Input files of the batch specification *)

\* headers
H_STATUS_ZADANIYA == <<"S","t","a","t","u","s"," ","z","a","d","a","n","i","ya">>
H_TIP_ADRESA      == <<"T","i","p"," ","A","d","r","e","s","a">>
H_STATUS          == <<"S","t","a","t","u","s">>
H_STATUS_PADDED   == <<" ","s","t","a","t","u","s">>
H_STATUS_UPPER    == <<"S","T","A","T","U","S">>
H_TIP_UPPER       == <<"T","I","P">>
H_TIP_TOCHKI_YO   == <<"T","i","p"," ","T","o","ch","k","i">>
H_KOD             == <<"K","o","d">>
H_ITOGO           == <<"I","t","o","g","o">>
H_GOROD           == <<"G","o","r","o","d">>

\* status cells
S_DONE        == <<"V","y","p","o","l","n","e","n","o">>
S_DONE_PADDED == <<" ","v","y","p","o","l","n","e","n","o"," ">>
S_DONE_YO     == <<"V","Y","P","O","L","N","YO","N","O">>
S_IN_WORK     == <<"v"," ","o","b","r","a","b","o","t","k","e">>
S_NOT_DONE    == <<"n","e"," ","v","y","p","o","l","n","e","n","o">>

\* type cells
T_P        == <<"P">>
T_P_SMALL  == <<" ","p">>
T_D        == <<"D">>
T_PVZ      == <<"P","V","Z">>
T_Z        == <<"Z">>

\* the file of the end-to-end example: 2 completed, 1 of them a postomat
DF_EXAMPLE ==
    [columns |-> <<H_STATUS_ZADANIYA, H_TIP_ADRESA>>,
     rows    |-> << <<S_DONE, T_P>>, <<S_DONE, T_D>>, <<S_IN_WORK, T_P>> >>]

\* type before status, upper-case headers, padded and yo-bearing cells
DF_VARIANT ==
    [columns |-> <<H_TIP_UPPER, H_STATUS_UPPER>>,
     rows    |-> << <<T_P_SMALL, S_DONE_YO>>, <<T_PVZ, S_DONE_PADDED>>,
                    <<T_P, NaN>>, <<T_P, S_DONE>> >>]

\* more postomat rows than completed rows
DF_PENDING ==
    [columns |-> <<H_TIP_TOCHKI_YO, H_STATUS_ZADANIYA>>,
     rows    |-> << <<T_P, S_IN_WORK>>, <<T_P, S_NOT_DONE>>, <<T_Z, S_DONE>> >>]

\* no type column
DF_NO_TYPE ==
    [columns |-> <<H_STATUS>>, rows |-> << <<S_DONE>> >>]

\* two headers that normalize to the same label
DF_SAME_LABEL ==
    [columns |-> <<H_STATUS, H_STATUS_PADDED, H_TIP_UPPER>>,
     rows    |-> << <<S_DONE, S_DONE, T_P>> >>]

NO_DF == [columns |-> <<>>, rows |-> <<>>]

\* metric values
V1 == <<"1">>
V2 == <<"2">>
V3 == <<"3">>
V4 == <<"4">>
V5 == <<"5">>

MSK650  == PM_CODES[1].code
MSK963  == PM_CODES[2].code
MSK1125 == PM_CODES[3].code
MSK2469 == PM_CODES[4].code
MSK999  == <<"[M]","[S]","[K]","9","9","9">>
MSK650_LOOSE == <<" ","[m]","[s]","[k]","6","5","0">>

\* sheets: a code column and the metric column
SHEET_2OF4 ==
    [columns |-> <<H_KOD, PM_METRIC_RAW>>,
     rows    |-> << <<MSK650_LOOSE, V1>>, <<MSK963, V2>>, <<MSK999, V5>> >>]

SHEET_3OF4 ==
    [columns |-> <<H_KOD, PM_METRIC_RAW>>,
     rows    |-> << <<MSK650, V1>>, <<MSK963, V2>>, <<MSK1125, V3>> >>]

SHEET_3OF4_B ==
    [columns |-> <<PM_METRIC_RAW, H_KOD>>,
     rows    |-> << <<V5, MSK963>>, <<V4, MSK1125>>, <<V3, MSK2469>> >>]

SHEET_4OF4 ==
    [columns |-> <<H_KOD, PM_METRIC_RAW>>,
     rows    |-> << <<MSK650, V1>>, <<MSK963, V2>>, <<MSK1125, V3>>, <<MSK2469, V4>> >>]

SHEET_4OF4_B ==
    [columns |-> <<H_KOD, PM_METRIC_RAW>>,
     rows    |-> << <<MSK2469, V1>>, <<MSK1125, V2>>, <<MSK963, V3>>, <<MSK650, V5>>,
                    <<MSK650, V4>> >>]

\* a code of the family, but none of the configured ones
SHEET_0OF4 ==
    [columns |-> <<H_KOD, PM_METRIC_RAW>>, rows |-> << <<MSK999, V1>> >>]

\* no column for the metric
SHEET_NO_METRIC ==
    [columns |-> <<H_KOD, H_ITOGO>>, rows |-> << <<MSK650, V1>>, <<MSK963, V2>> >>]

\* no column with codes
SHEET_NO_CODES ==
    [columns |-> <<H_GOROD, PM_METRIC_RAW>>, rows |-> << <<H_ITOGO, V1>> >>]

\* the sheets pd.read_excel gives for a workbook with these tables, named in order
SHEET_NAMES == <<"Sheet1", "Sheet2", "Sheet3", "Sheet4", "Sheet5">>

Workbook(dfs) == [k \in 1..Len(dfs) |-> [name |-> SHEET_NAMES[k], df |-> dfs[k]]]

CsvPath(name, suffix, readable, df) ==
    [name |-> name, suffix |-> suffix, readable |-> readable, df |-> df, sheets |-> <<>>]

ExcelPath(name, suffix, readable, dfs) ==
    [name |-> name, suffix |-> suffix, readable |-> readable, df |-> NO_DF,
     sheets |-> Workbook(dfs)]

EXAMPLE_CSV    == CsvPath("example.csv", CSV_SUFFIX, TRUE, DF_EXAMPLE)
VARIANT_CSV    == CsvPath("variant.CSV", Upper(CSV_SUFFIX), TRUE, DF_VARIANT)
PENDING_CSV    == CsvPath("pending.csv", CSV_SUFFIX, TRUE, DF_PENDING)
CORRUPT_CSV    == CsvPath("corrupt.csv", CSV_SUFFIX, FALSE, NO_DF)
NO_TYPE_CSV    == CsvPath("no_type.csv", CSV_SUFFIX, TRUE, DF_NO_TYPE)
SAME_LABEL_CSV == CsvPath("same_label.csv", CSV_SUFFIX, TRUE, DF_SAME_LABEL)
NOTES_TXT      == CsvPath("notes.txt", <<".","[t]","[x]","[t]">>, TRUE, NO_DF)

TWO_SHEETS_XLSX ==
    ExcelPath("two_sheets.xlsx", <<".","[x]","[l]","[s]","[x]">>, TRUE,
              <<SHEET_2OF4, SHEET_4OF4>>)
CORRUPT_XLS ==
    ExcelPath("corrupt.xls", <<".","[x]","[l]","[s]">>, FALSE, <<>>)
NO_METRIC_XLSM ==
    ExcelPath("no_metric.XLSM", <<".","[X]","[L]","[S]","[M]">>, TRUE,
              <<SHEET_NO_METRIC, SHEET_NO_CODES>>)
OTHER_CODES_XLSX ==
    ExcelPath("other_codes.xlsx", <<".","[x]","[l]","[s]","[x]">>, TRUE,
              <<SHEET_NO_CODES, SHEET_0OF4>>)

\* the files a list given to analyze_csvs / analyze_pm_excels is drawn from
FilePool(m) ==
    IF m = "csv"
    THEN {EXAMPLE_CSV, VARIANT_CSV, PENDING_CSV, CORRUPT_CSV, NO_TYPE_CSV,
          SAME_LABEL_CSV, TWO_SHEETS_XLSX}
    ELSE {TWO_SHEETS_XLSX, CORRUPT_XLS, NO_METRIC_XLSM, OTHER_CODES_XLSX, NOTES_TXT}

\* the longest list of paths
MaxFiles == 3

\* all sequences over S of length at most n
SeqsUpTo(S, n) == UNION {[1..k -> S] : k \in 0..n}

ZERO_TOTALS == [total_completed |-> 0, postomats |-> 0, others |-> 0]

\* the state at the head of either function: lines 75-77 and 283
Init ==
    /\ mode \in {"csv", "pm"}
    /\ paths \in SeqsUpTo(FilePool(mode), MaxFiles)
    /\ i = 0
    /\ pc = "loop"
    /\ totals = ZERO_TOTALS
    /\ per_file = <<>>
    /\ results = <<>>
    /\ errors = <<>>
    /\ skipped = <<>>
    /\ j = 0
    /\ best_sheet = None
    /\ best_vals = None
    /\ best_score = -1
    /\ arg = None
    /\ ret = None

Next == CsvSkip \/ CsvFile \/ PmSkip \/ PmOpen \/ PmSheet \/ PmFinish \/ Finish

Spec == Init /\ [][Next]_vars

----------------------------------------------------------------------------
(* One call of a helper on an argument drawn from a bounded set: the       *)
(* argument is in arg, the call puts what it gives into ret.               *)

\* the batch variables while a helper is studied on its own
NoBatch ==
    /\ paths = <<>> /\ i = 0
    /\ totals = ZERO_TOTALS /\ per_file = <<>> /\ results = <<>>
    /\ errors = <<>> /\ skipped = <<>>
    /\ j = 0 /\ best_sheet = None /\ best_vals = None /\ best_score = -1

BatchVars == <<paths, i, totals, per_file, results, errors, skipped,
               j, best_sheet, best_vals, best_score>>

\* all sequences over S of length at most n without a repeated element
DistinctSeqsUpTo(S, n) ==
    {q \in SeqsUpTo(S, n) : \A a, b \in 1..Len(q) : a # b => q[a] # q[b]}

(* _count_in_df *)

\* the most rows of a generated table
MaxRows == 3

STATUS_CELLS == {S_DONE_PADDED, S_DONE_YO, S_NOT_DONE}

TYPE_CELLS == {T_P_SMALL, T_PVZ}

\* the generated tables: status before type, or type before status
CountTables ==
    {[columns |-> <<H_STATUS_ZADANIYA, H_TIP_ADRESA>>, rows |-> r] :
         r \in SeqsUpTo({<<st, ty>> : st \in STATUS_CELLS, ty \in TYPE_CELLS}, MaxRows)}
    \cup
    {[columns |-> <<H_TIP_TOCHKI_YO, H_GOROD, H_STATUS_UPPER>>, rows |-> r] :
         r \in SeqsUpTo({<<ty, H_ITOGO, st>> : st \in STATUS_CELLS, ty \in TYPE_CELLS},
                        MaxRows)}
    \cup {DF_EXAMPLE, DF_VARIANT, DF_PENDING, DF_NO_TYPE, DF_SAME_LABEL}

InitCount ==
    /\ mode = "count" /\ pc = "call"
    /\ arg \in CountTables
    /\ ret = None
    /\ NoBatch

CallCount ==
    /\ mode = "count" /\ pc = "call"
    /\ ret' = _count_in_df(arg)
    /\ pc' = "returned"
    /\ UNCHANGED <<mode, arg, BatchVars>>

SpecCount == InitCount /\ [][CallCount]_vars

(* _pick_column *)

\* the most columns and the most candidates of a generated call
MaxCols == 3
MaxCands == 2

N_STATUS       == <<"s","t","a","t","u","s">>
N_STATUS_TOTAL == <<"s","t","a","t","u","s"," ","o","b">>
N_TIP          == <<"t","i","p">>
N_TIP_TOCHKI   == <<"t","i","p"," ","t","o","ch">>
N_KOD          == <<"k","o","d">>
N_DATA         == <<"d","a","t","a">>

PickColumns == DistinctSeqsUpTo({N_STATUS, N_STATUS_TOTAL, N_TIP, N_TIP_TOCHKI, N_KOD},
                                MaxCols)

PickCandidates == SeqsUpTo({N_STATUS, N_TIP, N_TIP_TOCHKI, N_DATA}, MaxCands) \ {<<>>}

InitPick ==
    /\ mode = "pick" /\ pc = "call"
    /\ arg \in {[columns |-> c, candidates |-> d] : c \in PickColumns, d \in PickCandidates}
    /\ ret = None
    /\ NoBatch

CallPick ==
    /\ mode = "pick" /\ pc = "call"
    /\ ret' = _pick_column(arg.columns, arg.candidates)
    /\ pc' = "returned"
    /\ UNCHANGED <<mode, arg, BatchVars>>

SpecPick == InitPick /\ [][CallPick]_vars

(* _find_code_col_loose *)

\* the most columns of a generated table
MaxCodeCols == 3

\* column contents, three cells each
CODE_COLUMNS ==
    { <<MSK650_LOOSE, MSK963, H_GOROD>>,
      <<MSK1125, MSK2469, NaN>>,
      <<MSK650, MSK650, MSK999>>,
      <<MSK963, MSK1125, MSK2469>>,
      <<H_GOROD, H_ITOGO, NaN>>,
      <<MSK999, V1, V2>> }

COLUMN_LABELS == << <<"[a]">>, <<"[c]">>, <<"[k]">>, <<"[l]">>, <<"[m]">> >>

\* the table whose columns hold cols, labelled in order
TableOfColumns(cols) ==
    [columns |-> [c \in 1..Len(cols) |-> COLUMN_LABELS[c]],
     rows    |-> [r \in 1..3 |-> [c \in 1..Len(cols) |-> cols[c][r]]]]

CodeTables == {TableOfColumns(cols) : cols \in SeqsUpTo(CODE_COLUMNS, MaxCodeCols) \ {<<>>}}

InitCode ==
    /\ mode = "code" /\ pc = "call"
    /\ arg \in CodeTables
    /\ ret = None
    /\ NoBatch

CallCode ==
    /\ mode = "code" /\ pc = "call"
    /\ ret' = _find_code_col_loose(arg, PM_CODE_LIST)
    /\ pc' = "returned"
    /\ UNCHANGED <<mode, arg, BatchVars>>

SpecCode == InitCode /\ [][CallCode]_vars

(* analyze_pm_excels on one workbook *)

\* the most sheets of a generated workbook
MaxSheets == 3

SHEET_POOL ==
    {SHEET_0OF4, SHEET_2OF4, SHEET_3OF4, SHEET_3OF4_B,
     SHEET_4OF4, SHEET_4OF4_B, SHEET_NO_METRIC, SHEET_NO_CODES}

InitWorkbook ==
    /\ mode = "pm" /\ pc = "loop"
    /\ \E dfs \in SeqsUpTo(SHEET_POOL, MaxSheets) \ {<<>>} :
           paths = <<ExcelPath("book.xlsx", <<".","[x]","[l]","[s]","[x]">>, TRUE, dfs)>>
    /\ i = 0
    /\ totals = ZERO_TOTALS /\ per_file = <<>> /\ results = <<>>
    /\ errors = <<>> /\ skipped = <<>>
    /\ j = 0 /\ best_sheet = None /\ best_vals = None /\ best_score = -1
    /\ arg = None /\ ret = None

NextWorkbook == PmOpen \/ PmSheet \/ PmFinish \/ Finish

SpecWorkbook == InitWorkbook /\ [][NextWorkbook]_vars

(* _normalize_columns *)

\* the most columns of a generated table
MaxHeaders == 3

H_OTCHYOT == <<"O","t","ch","yo","t">>
H_OTCHET  == <<"o","t","ch","e","t">>

\* raw headers as a file has them; some differ only by case, padding or yo/e
RAW_HEADERS == {H_STATUS, H_STATUS_PADDED, H_STATUS_UPPER, H_OTCHYOT, H_OTCHET, H_TIP_UPPER}

\* the generated tables: pairwise distinct raw headers, no row or one row
HeaderTables ==
    {[columns |-> c, rows |-> r] :
         c \in DistinctSeqsUpTo(RAW_HEADERS, MaxHeaders), r \in {<<>>}}
    \cup
    {[columns |-> c, rows |-> <<[k \in 1..Len(c) |-> <<"1">>]>>] :
         c \in DistinctSeqsUpTo(RAW_HEADERS, MaxHeaders)}

InitNormalize ==
    /\ mode = "normalize" /\ pc = "call"
    /\ arg \in HeaderTables
    /\ ret = None
    /\ NoBatch

\* out = df.copy(); out.columns = cols: the new labels go onto the copy, df keeps its own
CallNormalize ==
    /\ mode = "normalize" /\ pc = "call"
    /\ ret' = Return(_normalize_columns(arg))
    /\ pc' = "returned"
    /\ UNCHANGED <<mode, arg, BatchVars>>

SpecNormalize == InitNormalize /\ [][CallNormalize]_vars

(* _find_metric_col_loose *)

\* the most columns of a generated table
MaxMetricCols == 3

\* the metric label padded, in other case, with other punctuation and with yo for e
M_VARIANT ==
    <<" ","S","R","-","s","r","o","k"," ","n","a"," ",
      "p","o","s","l","e","d","n","YO","j","_","m","i","l","e"," ",
      "d","l","ya"," ","2"," ","ya","k","o","r","ya"," ",
      "b","e","z"," ","s","d","d"," ","d","n","."," ">>

\* a part of the metric label
M_SHORT ==
    <<"S","r","o","k"," ","n","a"," ",
      "p","o","s","l","e","d","n","e","j"," ","m","i","l","e">>

\* the metric label and more
M_LONG == PM_METRIC_RAW \o <<" ","i","t","o","g">>

\* three keywords, in an order the metric label does not have
M_KEYWORDS == <<"S","r","o","k"," ","ya","k","o","r","ya"," ","S","D","D">>

\* two keywords
M_TWO_KEYWORDS == <<"S","r","o","k"," ","S","D","D">>

\* a header of punctuation only
M_DOT == <<".">>

METRIC_HEADERS ==
    {PM_METRIC_RAW, M_VARIANT, M_SHORT, M_LONG, M_KEYWORDS, M_TWO_KEYWORDS, M_DOT, H_KOD}

MetricTables ==
    {[columns |-> c, rows |-> <<>>] : c \in DistinctSeqsUpTo(METRIC_HEADERS, MaxMetricCols)}

InitMetric ==
    /\ mode = "metric" /\ pc = "call"
    /\ arg \in MetricTables
    /\ ret = None
    /\ NoBatch

CallMetric ==
    /\ mode = "metric" /\ pc = "call"
    /\ ret' = _find_metric_col_loose(arg)
    /\ pc' = "returned"
    /\ UNCHANGED <<mode, arg, BatchVars>>

SpecMetric == InitMetric /\ [][CallMetric]_vars

----------------------------------------------------------------------------
(* Properties *)

Sum(a, b) == [total_completed |-> a.total_completed + b.total_completed,
              postomats       |-> a.postomats + b.postomats,
              others          |-> a.others + b.others]

\* the file names of a sequence of records with a field `file`
FileNames(recs) == [k \in 1..Len(recs) |-> recs[k].file]

IsCsv(f) == Lower(f.suffix) = CSV_SUFFIX

IsExcel(f) == Lower(f.suffix) \in EXCEL_SUFFIXES

\* whether the batch function of mode m takes up file f at all
Relevant(f, m) == IF m = "csv" THEN IsCsv(f) ELSE IsExcel(f)

\* what _count_in_df gives for the tables of the files, and _extract_pm_from_df for
\* the sheets of the workbooks
Counted == [df \in {f.df : f \in FilePool("csv")} |-> _count_in_df(df)]

Extracted == [df \in SHEET_POOL |-> _extract_pm_from_df(df)]

\* the score of a sheet, -1 when a locator fails on it
SheetScore(sheet) ==
    IF Extracted[sheet.df].ok THEN Score(Extracted[sheet.df].val) ELSE -1

\* processing f fails at some stage: it cannot be decoded, or (CSV) a column does
\* not resolve or cannot be counted, or (Excel) no sheet can be extracted
Fails(f, m) ==
    \/ ~f.readable
    \/ m = "csv" /\ ~Counted[f.df].ok
    \/ m = "pm" /\ \A k \in 1..Len(f.sheets) : SheetScore(f.sheets[k]) = -1

\* the sheet an exhaustive scan chooses: the first one of the highest score
ExhaustiveBest(sheets) ==
    First({k \in 1..Len(sheets) :
              /\ SheetScore(sheets[k]) >= 0
              /\ \A m \in 1..Len(sheets) : SheetScore(sheets[m]) <= SheetScore(sheets[k])})

\* what a file that does not fail contributes
CsvEntry(f) ==
    LET counts == Counted[f.df].val
    IN  [file |-> f.name, total_completed |-> counts.total_completed,
         postomats |-> counts.postomats, others |-> counts.others]

PmEntry(f) ==
    LET best == f.sheets[ExhaustiveBest(f.sheets)]
    IN  [file |-> f.name, sheet |-> best.name, values |-> Extracted[best.df].val]

\* the files of list, in order, that mode m takes up and that fail (failing = TRUE)
\* or do not fail (failing = FALSE)
RECURSIVE Processed(_, _, _)
Processed(list, m, failing) ==
    IF list = <<>> THEN <<>>
    ELSE IF Relevant(Head(list), m) /\ (Fails(Head(list), m) <=> failing)
    THEN <<Head(list)>> \o Processed(Tail(list), m, failing)
    ELSE Processed(Tail(list), m, failing)

\* the counters of a sequence of per_file entries, added up from left to right
RECURSIVE TotalOf(_)
TotalOf(entries) ==
    IF entries = <<>> THEN ZERO_TOTALS
    ELSE Sum(TotalOf(SubSeq(entries, 1, Len(entries) - 1)),
             [total_completed |-> entries[Len(entries)].total_completed,
              postomats       |-> entries[Len(entries)].postomats,
              others          |-> entries[Len(entries)].others])

\* the part of paths the loop has been through
Prefix == SubSeq(paths, 1, i)

\* C1: in both batch functions, whatever files fail, the call returns (the loops stay
\* within their ranges, where a step is always possible, up to the return), each
\* failing file has exactly one error entry naming it, and totals / per_file /
\* results hold the full contribution of every file that does not fail, as if the
\* failing files were not in the list; this holds after every file of the list.
C1_FailuresAreIsolated ==
    /\ pc = "loop" => i <= Len(paths)
    /\ pc = "sheets" => i < Len(paths) /\ j <= Len(p.sheets)
    /\ pc \in {"loop", "done"} =>
          LET good == Processed(Prefix, mode, FALSE)
              bad  == Processed(Prefix, mode, TRUE)
          IN  /\ FileNames(errors) = [k \in 1..Len(bad) |-> bad[k].name]
              /\ mode = "csv" =>
                    /\ per_file = [k \in 1..Len(good) |-> CsvEntry(good[k])]
                    /\ totals = TotalOf([k \in 1..Len(good) |-> CsvEntry(good[k])])
              /\ mode = "pm" =>
                    results = [k \in 1..Len(good) |-> PmEntry(good[k])]

\* file 2 of 3 is corrupt, files 1 and 3 are counted
C1_Witness ==
    /\ pc = "done" /\ mode = "csv"
    /\ paths = <<EXAMPLE_CSV, CORRUPT_CSV, VARIANT_CSV>>
    /\ FileNames(errors) = <<"corrupt.csv">>
    /\ totals = [total_completed |-> 5, postomats |-> 3, others |-> 2]

\* how many times x occurs in seq
Count(seq, x) == Cardinality({k \in 1..Len(seq) : seq[k] = x})

\* how many records of the result name the file n
Contributions(n) == Count(FileNames(per_file), n) + Count(FileNames(results), n)

\* C2 as claimed: every file of the list, in either mode, is accounted for in exactly
\* one way: a contribution, an error entry or a skip record; none is silently omitted.
C2_EveryFileAccounted ==
    pc = "done" =>
        \A k \in 1..Len(paths) :
            LET n == paths[k].name
            IN  Contributions(n) + Count(FileNames(errors), n) + Count(FileNames(skipped), n)
                    = Count([m \in 1..Len(paths) |-> paths[m].name], n)

\* C2 as amended: analyze_pm_excels accounts for every file of the list in exactly one
\* way (a results entry, an error entry, or a skipped record with its reason, which is
\* where a non-Excel file goes and not into errors); analyze_csvs accounts for every
\* .csv file in exactly one way (a per_file entry or an error entry) and passes over
\* a non-CSV file without any record.
C2_AccountedExceptNonCsv ==
    pc = "done" =>
        \A k \in 1..Len(paths) :
            LET f        == paths[k]
                n        == f.name
                listed   == Count([m \in 1..Len(paths) |-> paths[m].name], n)
                recorded == Contributions(n) + Count(FileNames(errors), n)
            IN  /\ mode = "pm" /\ IsExcel(f) =>
                      recorded = listed /\ Count(FileNames(skipped), n) = 0
                /\ mode = "pm" /\ ~IsExcel(f) =>
                      /\ recorded = 0
                      /\ Count(FileNames(skipped), n) = listed
                      /\ \A m \in 1..Len(skipped) : skipped[m].reason = "Ne Excel"
                /\ mode = "csv" /\ IsCsv(f) => recorded = listed /\ skipped = <<>>
                /\ mode = "csv" /\ ~IsCsv(f) => recorded = 0 /\ skipped = <<>>

\* one file skipped, one extracted, one failed
C2_Witness ==
    /\ pc = "done" /\ mode = "pm"
    /\ paths = <<NOTES_TXT, TWO_SHEETS_XLSX, CORRUPT_XLS>>
    /\ FileNames(skipped) = <<"notes.txt">>
    /\ FileNames(results) = <<"two_sheets.xlsx">>
    /\ FileNames(errors) = <<"corrupt.xls">>

\* the rearrangements of a sequence
PermutationsOf(q) ==
    {[k \in 1..Len(q) |-> q[f[k]]] : f \in Permutations(1..Len(q))}

\* the totals of the files of list that are counted, added up in the order of list
TotalsOfList(list) ==
    LET good == Processed(list, "csv", FALSE)
    IN  TotalOf([k \in 1..Len(good) |-> CsvEntry(good[k])])

\* C3: after any prefix of the list (and so at the return) every counter of totals is
\* the sum of that counter over the entries in per_file, per_file holds exactly the
\* files processed with success, in input order; the final totals are the same for
\* every permutation of the list; an empty list gives zero totals and empty per_file
\* and errors.
C3_TotalsAreSumOfPerFile ==
    mode = "csv" /\ pc \in {"loop", "done"} =>
        /\ totals = TotalOf(per_file)
        /\ LET good == Processed(Prefix, "csv", FALSE)
           IN  FileNames(per_file) = [k \in 1..Len(good) |-> good[k].name]
        /\ pc = "done" => \A q \in PermutationsOf(paths) : totals = TotalsOfList(q)
        /\ pc = "done" /\ paths = <<>> =>
               totals = ZERO_TOTALS /\ per_file = <<>> /\ errors = <<>>

\* two counted files around one that fails, with different counts
C3_Witness ==
    /\ pc = "done" /\ mode = "csv"
    /\ paths = <<VARIANT_CSV, NO_TYPE_CSV, PENDING_CSV>>
    /\ FileNames(per_file) = <<"variant.CSV", "pending.csv">>
    /\ totals = [total_completed |-> 4, postomats |-> 2, others |-> 2]

\* where _count_in_df finds the status and the type of a row of df
StatusIndex(df) ==
    LET cols == _normalize_columns(df).columns
    IN  First({k \in 1..Len(cols) : cols[k] = _pick_column(cols, STATUS_CANDIDATES).val})

TypeIndex(df) ==
    LET cols == _normalize_columns(df).columns
    IN  First({k \in 1..Len(cols) : cols[k] = _pick_column(cols, TYPE_CANDIDATES).val})

\* the rows of df whose status, trimmed, lower case and yo folded, is the done token
DoneRows(df) ==
    {k \in 1..Len(df.rows) :
        ReplaceYo(Lower(Strip(AsStr(df.rows[k][StatusIndex(df)])))) = DONE_TOKEN}

\* df with the type of every row replaced by the cell tc
WithType(df, tc) ==
    [df EXCEPT !.rows = [k \in 1..Len(df.rows) |->
                            [df.rows[k] EXCEPT ![TypeIndex(df)] = tc]]]

\* C4: for a table whose status and type columns resolve, total_completed is the
\* number of rows whose status, trimmed, lower case and yo folded, is the done token;
\* it is the same for every permutation of the rows and whatever the types are.
C4_TotalCompletedCountsDoneRows ==
    pc = "returned" /\ ret.ok =>
        /\ ret.val.total_completed = Cardinality(DoneRows(arg))
        /\ \A q \in PermutationsOf(arg.rows) :
               _count_in_df([arg EXCEPT !.rows = q]).val.total_completed
                   = ret.val.total_completed
        /\ \A tc \in TYPE_CELLS \cup {NaN, T_P, T_D} :
               _count_in_df(WithType(arg, tc)).val.total_completed
                   = ret.val.total_completed

\* three rows: a capital-YO status, a padded one and one that is not done
C4_Witness ==
    /\ pc = "returned" /\ ret.ok
    /\ arg.columns = <<H_TIP_TOCHKI_YO, H_GOROD, H_STATUS_UPPER>>
    /\ [k \in 1..Len(arg.rows) |-> arg.rows[k][3]] = <<S_NOT_DONE, S_DONE_YO, S_DONE_PADDED>>
    /\ ret.val.total_completed = 2

\* the four named categories and their codes
CATEGORIES ==
    { [name |-> "postomat", code |-> T_P], [name |-> "pickup_point", code |-> T_PVZ],
      [name |-> "courier_delivery", code |-> T_D], [name |-> "pending_order", code |-> T_Z] }

\* the completed rows of df whose type, trimmed and upper case, is the code
DoneRowsOfType(df, code) ==
    {k \in DoneRows(df) : Upper(Strip(AsStr(df.rows[k][TypeIndex(df)]))) = code}

\* C5 as claimed: the result has one counter for each of the four named categories
\* (under whatever keys), each the number of completed rows whose type is that
\* category's code.
C5_FourCategoryCounters ==
    pc = "returned" /\ ret.ok =>
        \E counter \in [CATEGORIES -> DOMAIN ret.val \ {"total_completed"}] :
            /\ \A c, d \in CATEGORIES : c # d => counter[c] # counter[d]
            /\ \A c \in CATEGORIES :
                   ret.val[counter[c]] = Cardinality(DoneRowsOfType(arg, c.code))

\* C5 as amended: the result has total_completed, postomats and others; postomats is
\* the number of completed rows whose type, trimmed and upper case, is the postomat
\* code, others is total_completed minus postomats; the rows of the example give
\* total_completed = 2, postomats = 1, others = 1.
C5_PostomatsAndOthers ==
    pc = "returned" /\ ret.ok =>
        /\ DOMAIN ret.val = {"total_completed", "postomats", "others"}
        /\ ret.val.postomats = Cardinality(DoneRowsOfType(arg, POSTOMAT_CODE))
        /\ ret.val.others = ret.val.total_completed - ret.val.postomats
        /\ arg = DF_EXAMPLE =>
               ret.val = [total_completed |-> 2, postomats |-> 1, others |-> 1]

\* the example, counted
C5_Witness ==
    /\ pc = "returned" /\ arg = DF_EXAMPLE
    /\ ret = Return([total_completed |-> 2, postomats |-> 1, others |-> 1])

\* the file of the list that has the name n
FileNamed(n) == CHOOSE f \in {paths[k] : k \in 1..Len(paths)} : f.name = n

\* C6: in every per-file result and in the batch totals at every point of the loop,
\* each category counter is non-negative and the category counters together are at
\* most total_completed; a completed row whose type is no known code is still counted
\* in total_completed.
C6_CountersBounded ==
    mode = "csv" =>
        /\ \A c \in {totals} \cup {per_file[k] : k \in 1..Len(per_file)} :
               /\ c.postomats >= 0 /\ c.others >= 0
               /\ c.postomats + c.others <= c.total_completed
        /\ \A k \in 1..Len(per_file) :
               per_file[k].total_completed
                   = Cardinality(DoneRows(FileNamed(per_file[k].file).df))

\* a file whose only completed row has a type that is not the postomat code
C6_Witness ==
    /\ mode = "csv" /\ pc = "loop"
    /\ paths = <<EXAMPLE_CSV, PENDING_CSV, CORRUPT_CSV>> /\ i = 2
    /\ per_file[2] = [file |-> "pending.csv", total_completed |-> 1,
                      postomats |-> 0, others |-> 1]
    /\ totals = [total_completed |-> 3, postomats |-> 1, others |-> 2]

\* C7: if some candidate is a column name, _pick_column returns the earliest such
\* candidate, whatever column merely contains a candidate; only if none is, it
\* returns the first column, in table order, that contains a candidate; if there is
\* none either, it fails with an error that carries the candidates and the columns.
C7_ExactBeforeSubstring ==
    pc = "returned" =>
        LET cols  == arg.columns
            cands == arg.candidates
            exact == {c \in 1..Len(cands) : \E k \in 1..Len(cols) : cols[k] = cands[c]}
            sub   == {k \in 1..Len(cols) :
                         \E c \in 1..Len(cands) : Contains(cands[c], cols[k])}
        IN  /\ exact # {} =>
                  /\ ret.ok
                  /\ \E c \in exact : ret.val = cands[c] /\ \A m \in exact : c <= m
            /\ exact = {} /\ sub # {} =>
                  /\ ret.ok
                  /\ \E k \in sub : ret.val = cols[k] /\ \A m \in sub : k <= m
            /\ exact = {} /\ sub = {} =>
                  /\ ~ret.ok
                  /\ ret.err.candidates = cands /\ ret.err.columns = cols

\* the first candidate is only contained in the first column, the second candidate
\* is the name of the second column
C7_Witness ==
    /\ pc = "returned"
    /\ arg = [columns |-> <<N_STATUS_TOTAL, N_TIP_TOCHKI>>,
              candidates |-> <<N_STATUS, N_TIP_TOCHKI>>]
    /\ ret = Return(N_TIP_TOCHKI)

\* how many of the expected codes column c of df holds, compared stripped and upper case
DistinctCodes(df, c) ==
    Cardinality({code \in {PM_CODE_LIST[m] : m \in 1..Len(PM_CODE_LIST)} :
                    \E r \in 1..Len(df.rows) : Upper(Strip(AsStr(df.rows[r][c]))) = code})

\* C8: for a table in which some column holds an expected code, _find_code_col_loose
\* returns the leftmost of the columns that hold the most distinct expected codes.
C8_LeftmostBestCodeColumn ==
    pc = "returned" /\ (\E c \in 1..Len(arg.columns) : DistinctCodes(arg, c) > 0) =>
        /\ ret.ok
        /\ \E c \in 1..Len(arg.columns) :
               /\ ret.val = arg.columns[c]
               /\ \A m \in 1..Len(arg.columns) : DistinctCodes(arg, m) <= DistinctCodes(arg, c)
               /\ \A m \in 1..(c - 1) : DistinctCodes(arg, m) < DistinctCodes(arg, c)

\* two columns with 2 of the 4 codes each: the first is returned
C8_Witness ==
    /\ pc = "returned"
    /\ arg = TableOfColumns(<< <<MSK650_LOOSE, MSK963, H_GOROD>>, <<MSK1125, MSK2469, NaN>> >>)
    /\ DistinctCodes(arg, 1) = 2 /\ DistinctCodes(arg, 2) = 2
    /\ ret = Return(COLUMN_LABELS[1])

\* C9: the sheet analyze_pm_excels chooses, with its early exit, is the sheet an
\* exhaustive scan chooses, with the same values: the first sheet, in workbook order,
\* of the highest score; sheets on which a locator fails are passed over.
C9_EarlyExitIsExhaustiveBest ==
    pc = "done" =>
        LET sheets == paths[1].sheets
            b      == ExhaustiveBest(sheets)
        IN  IF b = 0 THEN results = <<>>
            ELSE results = << [file   |-> paths[1].name,
                               sheet  |-> sheets[b].name,
                               values |-> Extracted[sheets[b].df].val] >>

\* the scan stops at the second sheet, 4 of 4, and does not look at the third
C9_Witness ==
    /\ pc = "done" /\ j = 2
    /\ [k \in 1..Len(paths[1].sheets) |-> paths[1].sheets[k].df]
           = <<SHEET_2OF4, SHEET_4OF4, SHEET_4OF4_B>>
    /\ results[1].sheet = "Sheet2"
    /\ results[1].values = [Dekabrskaya |-> V1, Zhivova |-> V2,
                            Mnevniki |-> V3, Tvardovskogo |-> V4]

\* C10: a workbook in which no sheet yields any value (every sheet fails a locator or
\* matches none of the configured codes) fails: an error entry for the file and no
\* entry in results.
C10_NoValueWorkbookFails ==
    pc = "done" /\ (\A k \in 1..Len(paths[1].sheets) : SheetScore(paths[1].sheets[k]) <= 0) =>
        /\ results = <<>>
        /\ FileNames(errors) = <<paths[1].name>>

\* whether a sequence has no element twice
NoDuplicates(q) == \A a, b \in 1..Len(q) : a # b => q[a] # q[b]

\* C11 as claimed: for a table with pairwise distinct raw headers, the table
\* _normalize_columns returns has no column name twice and has the rows of the
\* input, and the call leaves the input table's headers as they were.
C11_NormalizedHeadersDistinct ==
    /\ [](mode = "normalize" /\ pc = "returned" /\ NoDuplicates(arg.columns) =>
              /\ NoDuplicates(ret.val.columns)
              /\ ret.val.rows = arg.rows)
    /\ [][mode = "normalize" => arg' = arg]_vars

\* the normalized headers of the table a metric lookup was called on
MetricNorm == [k \in 1..Len(arg.columns) |-> _norm_text(arg.columns[k])]

\* the columns that match in each of the three ways
ExactCols == {k \in 1..Len(arg.columns) : MetricNorm[k] = target}

SubstringCols ==
    {k \in 1..Len(arg.columns) :
        Contains(target, MetricNorm[k]) \/ Contains(MetricNorm[k], target)}

KeywordCols ==
    {k \in 1..Len(arg.columns) :
        Cardinality({w \in 1..Len(KEYWORDS) : Contains(KEYWORDS[w], MetricNorm[k])}) >= 3}

\* the call returned the header of the leftmost column of X
ReturnsLeftmostOf(X) ==
    \E k \in X : (\A m \in X : k <= m) /\ ret = Return(arg.columns[k])

\* a text with no padding, capital, yo, punctuation or space left in it
IsNormalText(s) ==
    \A k \in 1..Len(s) :
        /\ s[k] \notin Punctuation \cup {" ", "yo"}
        /\ \A c \in Cases : s[k] # c[2]

\* C12: _find_metric_col_loose compares headers normalized by trim, lower case,
\* yo -> e and removal of punctuation and spaces, there are five keywords, and it
\* returns the leftmost column whose header equals the target if there is one,
\* else the leftmost whose header contains the target or is contained in it,
\* else the leftmost whose header contains at least 3 of the keywords, and raises
\* KeyError when no column matches in any of these ways.
C12_MetricStrategiesInOrder ==
    mode = "metric" /\ pc = "returned" =>
        /\ Len(KEYWORDS) = 5
        /\ IsNormalText(target)
        /\ \A k \in 1..Len(arg.columns) : IsNormalText(MetricNorm[k])
        /\ ExactCols # {} => ReturnsLeftmostOf(ExactCols)
        /\ ExactCols = {} /\ SubstringCols # {} => ReturnsLeftmostOf(SubstringCols)
        /\ ExactCols = {} /\ SubstringCols = {} /\ KeywordCols # {} =>
               ReturnsLeftmostOf(KeywordCols)
        /\ ExactCols = {} /\ SubstringCols = {} /\ KeywordCols = {} =>
               ~ret.ok /\ ret.err.type = "KeyError"

\* an exact match was returned although an earlier column matches by substring
\* and by keywords, and the exact header was not spelled as the target is
C12_Witness ==
    /\ mode = "metric" /\ pc = "returned"
    /\ \E k \in ExactCols :
           /\ 1 \in SubstringCols \cap KeywordCols
           /\ 1 \notin ExactCols
           /\ arg.columns[k] # PM_METRIC_RAW
           /\ ret = Return(arg.columns[k])

====
